---- MODULE Spec2Model ----
(***************************************************************************)
(* The VST host of jakobrs/y: src/bin/vst_host.rs and its older sibling    *)
(* src/bin/main.rs.  The main thread loads and initialises a plugin,       *)
(* registers JACK ports, installs the per-period callback and then runs    *)
(* the editor's event loop or waits on stdin.  The JACK thread runs the    *)
(* callback: it encodes the pending raw MIDI messages, hands them to the   *)
(* plugin (send_midi) and calls process.                                   *)
(***************************************************************************)
EXTENDS Integers, Sequences, FiniteSets, TLC

\* ---------------------------------------------------------------- bounds
MaxBytes == 4        \* longest raw MIDI message the transport delivers
MaxPending == 2      \* raw MIDI messages pending in one period, all ports together
MaxPeriods == 2      \* periods the transport delivers
MaxMidiInputs == 1   \* largest plugin_info.midi_inputs
MaxExtraMidiIn == 1  \* largest --extra-midi-in
MaxChannels == 2     \* most audio channels per direction when the buffers are modelled
MaxFrames == 2       \* longest period, in samples

\* ------------------------------------------------------ program constants
MidiDataLen == 3     \* midi_data: [u8; 3]
MidiEventSize == 32  \* std::mem::size_of::<MidiEvent>()
MinNonZeroCap == 4   \* smallest non-empty capacity of a Vec of 8..1024 byte elements
I32Max == 2147483647

Max(a, b) == IF a >= b THEN a ELSE b

\* ------------------------------------------------------------- EventCodec
\* `raw_midi.time as i32`: a u32 above i32::MAX wraps to a negative number.
AsI32(t) == IF t <= I32Max THEN t ELSE (t - I32Max) - I32Max - 2

\* midi_data[..len]: the range-to index of a 3-byte array panics past its end.
SliceEndPanics(len) == len > MidiDataLen

\* let mut midi_data = [0, 0, 0]; midi_data[..n].copy_from_slice(bytes)
CopyReversed(bytes) ==
    [i \in 1..MidiDataLen |-> IF i <= Len(bytes) THEN bytes[Len(bytes) + 1 - i] ELSE 0]

CopyFromSlice(bytes) ==
    [i \in 1..MidiDataLen |-> IF i <= Len(bytes) THEN bytes[i] ELSE 0]

\* The MidiEvent literal of midi_event_from_raw_midi; "panic" when the slice
\* index of the copy is out of range.
midi_event_from_raw_midi(raw_midi) ==
    IF SliceEndPanics(Len(raw_midi.bytes))
    THEN [tag |-> "panic"]
    ELSE [tag |-> "ok",
          event |-> [event_type |-> "Midi",
                     byte_size |-> MidiEventSize,
                     delta_frames |-> 0,
                     flags |-> 0,
                     note_length |-> 0,
                     note_offset |-> AsI32(raw_midi.time),
                     midi_data |-> CopyFromSlice(raw_midi.bytes),
                     _midi_reserved |-> 0,
                     detune |-> 0,
                     note_off_velocity |-> 0,
                     _reserved1 |-> 0,
                     _reserved2 |-> 0]]

\* Vec::push when len = cap: RawVec::grow_amortized(len, 1).
GrowAmortized(cap, required) ==
    IF required <= cap THEN cap ELSE Max(MinNonZeroCap, Max(2 * cap, required))

\* ------------------------------------------------------------- the inputs
Bins == {"vst_host", "main"}

\* A raw MIDI message as the transport hands it over: jack::RawMidi.
Byte(i) == IF i = 1 THEN 144 ELSE IF i = 2 THEN 60 ELSE IF i = 3 THEN 127 ELSE 247
Raw(t, n) == [time |-> t, bytes |-> [i \in 1..n |-> Byte(i)]]

\* The messages of a period: a real-time byte, a note-on and a SysEx message.
HostMsgs == {Raw(0, 1), Raw(5, MidiDataLen), Raw(5, MaxBytes)}

\* The inputs of the codec: every message of 0..MaxBytes bytes over four byte
\* values, at offset 0, 5 or i32::MAX.
CodecBytes == {0, 60, 127, 144}
CodecTimes == {0, 5, I32Max}
SeqsUpTo(S, n) == UNION {[1..k -> S] : k \in 0..n}
CodecMsgs == {[time |-> t, bytes |-> b] : t \in CodecTimes, b \in SeqsUpTo(CodecBytes, MaxBytes)}

\* plugin.get_info(): the audio channel counts of an instrument (no input, a
\* stereo output) and of a stereo effect, with 0..MaxMidiInputs MIDI inputs.
ChannelLayouts == {<<0, 2>>, <<2, 2>>}
PluginInfos ==
    {[inputs |-> l[1], outputs |-> l[2], midi_inputs |-> m] :
        l \in ChannelLayouts, m \in 0..MaxMidiInputs}

RECURSIVE TotalPending(_, _)
TotalPending(p, n) == IF n = 0 THEN 0 ELSE Len(p[n]) + TotalPending(p, n - 1)

VARIABLES
    bin,                \* which binary runs: src/bin/vst_host.rs or src/bin/main.rs
    args,               \* Args: show_editor, extra_midi_in
    plugin_info,        \* plugin.get_info(): inputs, outputs, midi_inputs
    plugin_has_editor,  \* whether plugin.get_editor() yields an editor
    mainPc,             \* position of the main thread in main()
    result,             \* what main returned: "none", "Ok", or the context of the error
    plugin_state,       \* "Unloaded", "Loaded", "Initialized", "Stopped"
    editor,             \* the editor local: TRUE for Some(editor)
    editor_opens,       \* calls of editor.open
    input_ports,        \* number of registered audio input ports
    output_ports,       \* number of registered audio output ports
    midi_input_ports,   \* number of registered MIDI input ports
    window,             \* the editor's window: "none", "open" or "dropped"
    lifecycle,          \* the plugin's entry points main has called, in order:
                        \* "init", "get_editor", "shutdown"
    active,             \* the callback is installed (activate_async succeeded)
    alive,              \* the process has neither exited nor aborted
    cbPc,               \* position of the JACK thread in the callback
    control,            \* what the last callback invocation gave the transport
    period,             \* number of periods delivered so far
    pending,            \* the raw MIDI messages the ports have yielded this period
    portIx,             \* the port the drain loop is at
    consumed,           \* the messages the drain loop has taken, in order
    midi_events,        \* Vec<MidiEvent>
    midi_events_cap,    \* its capacity
    events_buffer,      \* Vec<u64>: count, reserved, then one pointer per event
    events_buffer_cap,  \* its capacity
    calls,              \* plugin entry points called in the current invocation
    processed,          \* periods for which process was called, in call order
    prevMax,            \* largest event count of an earlier invocation
    plugin_events,      \* the events the plugin was handed in this invocation
    audio,              \* the period's audio.  frames: its length; ins, outs: the
                        \* samples of the port buffers; inputs, outputs: the two
                        \* vectors of slices; host_buffer: the pointers bind
                        \* stored; before: ins and outs when the period arrived
    heap                \* what this invocation has done so far.  grew: the storage
                        \* of the batch was (re)allocated; freed: it was freed;
                        \* alloc: some heap allocation; io: a write to stdout or
                        \* stderr; log: a call of the log facade

vars == <<bin, args, plugin_info, plugin_has_editor, mainPc, result, plugin_state,
          editor, editor_opens, input_ports, output_ports, midi_input_ports,
          lifecycle, window, active, alive, cbPc, control,
          period, pending, portIx, consumed, midi_events, midi_events_cap,
          events_buffer, events_buffer_cap, calls, processed, prevMax, audio,
          plugin_events, heap>>

cfgVars == <<bin, args, plugin_info, plugin_has_editor>>
mainVars == <<mainPc, result, plugin_state, editor, editor_opens, input_ports,
              output_ports, midi_input_ports, lifecycle, window>>
cbVars == <<cbPc, control, period, pending, portIx, consumed, midi_events,
            midi_events_cap, events_buffer, events_buffer_cap, calls, processed,
            prevMax, audio, plugin_events, heap>>

\* ------------------------------------------------------------ BufferBinder
\* The slice of port ix: kind "in" for an AudioIn port, "out" for an AudioOut port.
Slice(kind, ix) == [kind |-> kind, ix |-> ix]

\* input_ports.iter().map(|port| port.as_slice(ps)).collect()
InputSlices(n) == [i \in 1..n |-> Slice("in", i)]

\* output_ports.iter_mut().map(|port| port.as_mut_slice(ps)).collect()
OutputSlicesAliased(n) == [j \in 1..n |-> Slice("in", j)]
OutputSlices(n) == [j \in 1..n |-> Slice("out", j)]

\* host_buffer.bind(&inputs, &mut outputs): the pointer of every slice is
\* stored in the host buffer's two arrays; no sample is read or written.
Bind(inputs, outputs) == [inputs |-> inputs, outputs |-> outputs]

\* n channels of the given number of frames, all samples zero.
Silence(n, frames) == [c \in 1..n |-> [f \in 1..frames |-> 0]]

\* The audio of a period as the callback finds it: i input buffers holding
\* `content`, o output buffers, and the slices the callback collects of them.
PeriodAudio(i, o, frames, content, host_buffer) ==
    [frames |-> frames,
     ins |-> content,
     outs |-> Silence(o, frames),
     inputs |-> InputSlices(i),
     outputs |-> OutputSlices(o),
     host_buffer |-> host_buffer,
     before |-> [ins |-> content, outs |-> Silence(o, frames)]]

\* The buffers of one direction after the plugin has stored block w[k] through
\* the k-th output pointer it was given.
Stored(buffers, kind, ptrs, w) ==
    [c \in DOMAIN buffers |->
        LET ks == {k \in DOMAIN ptrs : ptrs[k] = Slice(kind, c)}
        IN IF ks = {} THEN buffers[c] ELSE w[CHOOSE k \in ks : TRUE]]

\* plugin.process(&mut audio_buffer): the plugin reads through its input
\* pointers and overwrites, for the whole period, what its output pointers
\* point to, with samples of its choice.
PluginProcess(a, samples) ==
    {[a EXCEPT !.ins = Stored(a.ins, "in", a.host_buffer.outputs, w),
               !.outs = Stored(a.outs, "out", a.host_buffer.outputs, w)] :
        w \in [1..Len(a.host_buffer.outputs) -> [1..a.frames -> samples]]}

\* The samples a plugin writes: silence in the host model, two values where
\* the buffers are what is examined.
HostSamples == {0}
BindSamples == {0, 1}

\* Nothing done yet in an invocation.
NoEffects == [grew |-> FALSE, freed |-> FALSE, alloc |-> FALSE, io |-> FALSE,
              log |-> FALSE]

\* The callback's locals before the first period: two empty vectors.
CallbackInit ==
    /\ cbPc = "idle" /\ control = "none" /\ period = 0
    /\ pending = <<>> /\ portIx = 1 /\ consumed = <<>>
    /\ midi_events = <<>> /\ midi_events_cap = 0
    /\ events_buffer = <<>> /\ events_buffer_cap = 0
    /\ calls = <<>> /\ processed = <<>> /\ prevMax = 0 /\ plugin_events = <<>>
    /\ audio = PeriodAudio(0, 0, 0, <<>>, Bind(<<>>, <<>>))
    /\ heap = NoEffects

Init ==
    /\ bin \in Bins
    /\ args \in [show_editor : BOOLEAN, extra_midi_in : -1..MaxExtraMidiIn]
    /\ plugin_info \in PluginInfos
    /\ plugin_has_editor \in BOOLEAN
    /\ mainPc = "load" /\ result = "none" /\ plugin_state = "Unloaded"
    /\ editor = FALSE /\ editor_opens = 0
    /\ input_ports = 0 /\ output_ports = 0 /\ midi_input_ports = 0
    /\ lifecycle = <<>> /\ window = "none"
    /\ active = FALSE /\ alive = TRUE
    /\ CallbackInit

\* ------------------------------------------------------- the main thread
\* An early `?`/bail! return and the final Ok(()) both end in the drop of main's
\* locals.
Return(r) == mainPc' = "return" /\ result' = r

\* The contexts of the errors of the setup steps before activate_async.
SetupErrors ==
    {"Loading plugin", "Instantiating plugin", "Creating JACK client",
     "Registering input ports", "Registering output ports",
     "Registering MIDI input ports"}

\* `?` and bail!: the error is returned from main.
SwallowError(e) == mainPc' = "activate" /\ result' = e
Propagate(e) == Return(e)

\* PluginLoader::load(&args.path, host)?
LoadPlugin ==
    /\ alive /\ mainPc = "load"
    /\ \/ mainPc' = "instance" /\ result' = result
       \/ Propagate("Loading plugin")
    /\ UNCHANGED <<plugin_state, editor, editor_opens, input_ports, output_ports,
                   midi_input_ports, lifecycle, window>>
    /\ UNCHANGED <<cfgVars, cbVars, active, alive>>

\* plugin_loader.instance()?; plugin.get_info()
InstantiatePlugin ==
    /\ alive /\ mainPc = "instance"
    /\ \/ mainPc' = "init" /\ result' = result /\ plugin_state' = "Loaded"
       \/ Propagate("Instantiating plugin") /\ plugin_state' = plugin_state
    /\ UNCHANGED <<editor, editor_opens, input_ports, output_ports,
                   midi_input_ports, lifecycle, window>>
    /\ UNCHANGED <<cfgVars, cbVars, active, alive>>

\* The calls main has made once plugin.init() is called.
WithoutInit(log) == log
WithInit(log) == Append(log, "init")

\* plugin.init()
InitPlugin ==
    /\ alive /\ mainPc = "init"
    /\ plugin_state' = "Initialized"
    /\ lifecycle' = WithInit(lifecycle)
    /\ mainPc' = "get_editor"
    /\ UNCHANGED <<result, editor, editor_opens, input_ports, output_ports,
                   midi_input_ports, window>>
    /\ UNCHANGED <<cfgVars, cbVars, active, alive>>

\* let editor = if args.show_editor { plugin.get_editor() } else { None }
AnyEditor(show_editor, has_editor) == has_editor
RequestedEditor(show_editor, has_editor) == show_editor /\ has_editor

GetEditor ==
    /\ alive /\ mainPc = "get_editor"
    /\ editor' = RequestedEditor(args.show_editor, plugin_has_editor)
    /\ lifecycle' = IF args.show_editor THEN Append(lifecycle, "get_editor")
                                        ELSE lifecycle
    /\ mainPc' = "client"
    /\ UNCHANGED <<result, plugin_state, editor_opens, input_ports, output_ports,
                   midi_input_ports, window>>
    /\ UNCHANGED <<cfgVars, cbVars, active, alive>>

\* jack::Client::new("vst-host", options)?
CreateClient ==
    /\ alive /\ mainPc = "client"
    /\ \/ mainPc' = "ports" /\ result' = result
       \/ Propagate("Creating JACK client")
    /\ UNCHANGED <<plugin_state, editor, editor_opens, input_ports, output_ports,
                   midi_input_ports, lifecycle, window>>
    /\ UNCHANGED <<cfgVars, cbVars, active, alive>>

\* (0..plugin_info.midi_inputs + args.extra_midi_in as i32): an empty range when
\* the sum is not positive.
MidiPortCount(midi_inputs, extra_midi_in) == Max(0, midi_inputs + extra_midi_in)

\* The three register_port loops, each collected with `?`: a failure in one
\* loop leaves the vectors of that loop and of the later loops unbound.
RegisterPorts ==
    /\ alive /\ mainPc = "ports"
    /\ \/ /\ mainPc' = "activate" /\ result' = result
          /\ input_ports' = plugin_info.inputs
          /\ output_ports' = plugin_info.outputs
          /\ midi_input_ports' = MidiPortCount(plugin_info.midi_inputs, args.extra_midi_in)
       \/ /\ Propagate("Registering input ports")
          /\ UNCHANGED <<input_ports, output_ports, midi_input_ports>>
       \/ /\ Propagate("Registering output ports")
          /\ input_ports' = plugin_info.inputs
          /\ UNCHANGED <<output_ports, midi_input_ports>>
       \/ /\ Propagate("Registering MIDI input ports")
          /\ input_ports' = plugin_info.inputs
          /\ output_ports' = plugin_info.outputs
          /\ UNCHANGED midi_input_ports
    /\ UNCHANGED <<plugin_state, editor, editor_opens, lifecycle, window>>
    /\ UNCHANGED <<cfgVars, cbVars, active, alive>>

\* client.activate_async((), ClosureProcessHandler::new(callback))?; then
\* `if let Some(mut editor) = editor`.
Activate ==
    /\ alive /\ mainPc = "activate"
    /\ \/ /\ active' = TRUE /\ result' = result
          /\ mainPc' = IF editor THEN "window" ELSE "stdin"
       \/ Propagate("in activate_async") /\ active' = active
    /\ UNCHANGED <<plugin_state, editor, editor_opens, input_ports, output_ports,
                   midi_input_ports, lifecycle, window>>
    /\ UNCHANGED <<cfgVars, cbVars, alive>>

\* The event loop and the window are created and the raw window handle is
\* matched: `?` and bail! leave main when either fails or the handle is of
\* another platform's kind, and the return drops a window that was created.
\* Afterwards the window is moved into, or outlives, event_loop.run.
CreateWindow ==
    /\ alive /\ mainPc = "window"
    /\ \/ mainPc' = "editor_open" /\ result' = result /\ window' = "open"
       \/ Propagate("Creating editor window") /\ window' = window
       \/ Propagate("Unsupported raw window handle type") /\ window' = "dropped"
    /\ UNCHANGED <<plugin_state, editor, editor_opens, input_ports, output_ports,
                   midi_input_ports, lifecycle>>
    /\ UNCHANGED <<cfgVars, cbVars, active, alive>>

\* editor.open(handle) is entered ...
EditorOpenBegin ==
    /\ alive /\ mainPc = "editor_open"
    /\ mainPc' = "in_editor_open"
    /\ editor_opens' = editor_opens + 1
    /\ UNCHANGED <<result, plugin_state, editor, input_ports, output_ports,
                   midi_input_ports, lifecycle, window>>
    /\ UNCHANGED <<cfgVars, cbVars, active, alive>>

\* ... and returns; event_loop.run takes over the main thread.
EditorOpenEnd ==
    /\ alive /\ mainPc = "in_editor_open"
    /\ mainPc' = "event_loop"
    /\ UNCHANGED <<result, plugin_state, editor, editor_opens, input_ports, output_ports,
                   midi_input_ports, lifecycle, window>>
    /\ UNCHANGED <<cfgVars, cbVars, active, alive>>

\* WindowEvent::CloseRequested => ControlFlow::Exit (vst_host.rs, unix): run()
\* never returns, it exits the process.  main.rs only ever sets ControlFlow::Wait.
EventLoopExit ==
    /\ alive /\ mainPc = "event_loop" /\ bin = "vst_host"
    /\ mainPc' = "exited"
    /\ alive' = FALSE
    /\ UNCHANGED <<result, plugin_state, editor, editor_opens, input_ports, output_ports,
                   midi_input_ports, lifecycle, window>>
    /\ UNCHANGED <<cfgVars, cbVars, active>>

\* std::io::stdin().read_line(..): vst_host.rs discards the result, main.rs
\* returns the error with `?`.
ReadStdin ==
    /\ alive /\ mainPc = "stdin"
    /\ \/ Return("Ok")
       \/ bin = "main" /\ Propagate("Reading stdin")
    /\ UNCHANGED <<plugin_state, editor, editor_opens, input_ports, output_ports,
                   midi_input_ports, lifecycle, window>>
    /\ UNCHANGED <<cfgVars, cbVars, active, alive>>

\* Leaving main drops _async_client first: the client is deactivated, which
\* waits for the callback in flight, and no further callback runs.
DropAsyncClient ==
    /\ alive /\ mainPc = "return" /\ active
    /\ cbPc \in {"idle", "unwound"}
    /\ active' = FALSE
    /\ mainPc' = "drop_plugin"
    /\ UNCHANGED <<result, plugin_state, editor, editor_opens, input_ports, output_ports,
                   midi_input_ports, lifecycle, window>>
    /\ UNCHANGED <<cfgVars, cbVars, alive>>

\* The plugin instance (a local, or owned by the dropped callback) is dropped.
DropPlugin ==
    /\ alive
    /\ mainPc = "drop_plugin" \/ (mainPc = "return" /\ ~active)
    /\ plugin_state' = IF plugin_state = "Unloaded" THEN "Unloaded" ELSE "Stopped"
    /\ lifecycle' = IF plugin_state = "Unloaded" THEN lifecycle
                                                 ELSE Append(lifecycle, "shutdown")
    /\ mainPc' = "done"
    /\ UNCHANGED <<result, editor, editor_opens, input_ports, output_ports,
                   midi_input_ports, window>>
    /\ UNCHANGED <<cfgVars, cbVars, active, alive>>

\* ------------------------------------------------------- the JACK thread
Running == alive /\ active

\* `for port in midi_input_ports.iter()`: the ports still to come, in index
\* order, when the loop is at port p of n.
PortsFrom(p, n) == p..n

\* `.collect()` into a Vec of n slices: a vector of no elements allocates
\* nothing, any other allocates its storage.
CollectAllocates(n) == n > 0

\* main.rs: dbg!(raw_midi) in the drain loop and println! in send_midi.
PrintsToStdio(b) == b = "main"
\* vst_host.rs: log::debug! in send_midi.
LogsDebug(b) == b = "vst_host"

\* A period arrives: the callback collects the port slices into two new
\* vectors and clears midi_events (the capacity stays).
CallbackBegin ==
    /\ Running /\ cbPc = "idle" /\ period < MaxPeriods
    /\ period' = period + 1
    /\ pending' = [p \in 1..midi_input_ports |-> <<>>]
    /\ portIx' = 1
    /\ prevMax' = Max(prevMax, Len(midi_events))
    /\ midi_events' = <<>>
    /\ consumed' = <<>> /\ calls' = <<>>
    /\ heap' = [NoEffects EXCEPT
                    !.alloc = CollectAllocates(input_ports)
                              \/ CollectAllocates(output_ports)]
    /\ audio' = PeriodAudio(input_ports, output_ports, MaxFrames,
                            Silence(input_ports, MaxFrames), audio.host_buffer)
    /\ plugin_events' = <<>>
    /\ control' = "none"
    /\ cbPc' = "encode"
    /\ UNCHANGED <<midi_events_cap, events_buffer, events_buffer_cap, processed>>
    /\ UNCHANGED <<cfgVars, mainVars, active, alive>>

\* The loops take their next message: port q, at or after the current port,
\* yields raw_midi (the ports between yield nothing more).
Yields(q, raw_midi) ==
    /\ Running /\ cbPc = "encode"
    /\ TotalPending(pending, midi_input_ports) < MaxPending
    /\ q \in PortsFrom(portIx, midi_input_ports)
    /\ pending' = [pending EXCEPT ![q] = Append(@, raw_midi)]
    /\ consumed' = Append(consumed, raw_midi)
    /\ portIx' = q

\* midi_events.push(midi_event_from_raw_midi(raw_midi))
Push(msgs) ==
    /\ \E q \in 1..midi_input_ports, raw_midi \in msgs :
          LET r == midi_event_from_raw_midi(raw_midi)
              cap == GrowAmortized(midi_events_cap, Len(midi_events) + 1)
          IN /\ Yields(q, raw_midi)
             /\ r.tag = "ok"
             /\ midi_events' = Append(midi_events, r.event)
             /\ midi_events_cap' = cap
             /\ heap' = [heap EXCEPT !.grew = @ \/ cap > midi_events_cap,
                                      !.alloc = @ \/ cap > midi_events_cap,
                                      !.io = @ \/ PrintsToStdio(bin)]
    /\ UNCHANGED <<cbPc, control, period, events_buffer, events_buffer_cap, calls,
                   processed, prevMax>>
    /\ UNCHANGED <<cfgVars, mainVars, active, alive, audio, plugin_events>>

\* midi_event_from_raw_midi panics and the callback unwinds.  The panic leaves
\* an extern "C" callback: the jack crate either catches it and returns
\* Control::Quit, or the process aborts.
Panic(msgs) ==
    /\ \E q \in 1..midi_input_ports, raw_midi \in msgs :
          /\ Yields(q, raw_midi)
          /\ midi_event_from_raw_midi(raw_midi).tag = "panic"
    /\ cbPc' = "unwound"
    /\ heap' = [heap EXCEPT !.io = @ \/ PrintsToStdio(bin)]
    /\ \/ control' = "Quit" /\ alive' = alive
       \/ control' = "Abort" /\ alive' = FALSE
    /\ UNCHANGED <<period, midi_events, midi_events_cap, events_buffer,
                   events_buffer_cap, calls, processed, prevMax>>
    /\ UNCHANGED <<cfgVars, mainVars, active, audio, plugin_events>>

EncodePush == Push(HostMsgs)
EncodePanic == Panic(HostMsgs)

\* send_midi: `if num_events > 0`.
SendsAlways(num_events) == TRUE
SendsEvents(num_events) == num_events > 0

\* events_buffer.clear()
KeepWords(buffer) == buffer
Clear(buffer) == <<>>

\* The vector the list is written to: vst_host.rs clears the one it keeps,
\* main.rs collects into a new one.
ListBuffer(b, buffer) == IF b = "vst_host" THEN Clear(buffer) ELSE <<>>

\* [num_events, 0] chained with one pointer per element of midi_events.
EventList(num_events) == <<num_events, 0>> \o [i \in 1..num_events |-> [ptr |-> i]]

\* plugin.process_events(events): the plugin reads the count and follows that
\* many pointers into the storage of midi_events; a slot past the vector's
\* length holds what an earlier period left there.
EventsSeen(list, storage) ==
    [i \in 1..list[1] |->
        LET slot == list[i + 2].ptr
        IN IF slot \in DOMAIN storage THEN storage[slot] ELSE [event_type |-> "Stale"]]

\* The capacity of the word buffer once the list is written: vst_host.rs clears
\* and extends the vector it keeps, main.rs collects a new one.
NewBufferCap(b, cap, num_events) ==
    IF b = "vst_host" THEN GrowAmortized(cap, num_events + 2) ELSE num_events + 2

\* The loops are done; send_midi up to and including the call of
\* plugin.process_events.
SendMidi ==
    /\ Running /\ cbPc = "encode"
    /\ LET num_events == Len(midi_events)
           cap == NewBufferCap(bin, events_buffer_cap, num_events)
       IN IF SendsEvents(num_events)
          THEN /\ events_buffer' = ListBuffer(bin, events_buffer) \o EventList(num_events)
               /\ plugin_events' = EventsSeen(events_buffer', midi_events)
               /\ events_buffer_cap' = cap
               /\ heap' = [heap EXCEPT !.grew = @ \/ cap > events_buffer_cap,
                                        !.alloc = @ \/ cap > events_buffer_cap,
                                        !.io = @ \/ PrintsToStdio(bin),
                                        !.log = @ \/ LogsDebug(bin)]
               /\ calls' = Append(calls, "process_events")
               /\ cbPc' = "in_process_events"
          ELSE /\ cbPc' = "bind"
               /\ UNCHANGED <<events_buffer, events_buffer_cap, heap, calls,
                              plugin_events>>
    /\ UNCHANGED <<control, period, pending, portIx, consumed, midi_events,
                   midi_events_cap, processed, prevMax>>
    /\ UNCHANGED <<cfgVars, mainVars, active, alive, audio>>

\* plugin.process_events returns and send_midi ends; in main.rs the local
\* events_buffer is dropped here.
ProcessEventsReturn ==
    /\ Running /\ cbPc = "in_process_events"
    /\ IF bin = "main"
       THEN /\ events_buffer' = <<>> /\ events_buffer_cap' = 0
            /\ heap' = [heap EXCEPT !.freed = TRUE]
       ELSE UNCHANGED <<events_buffer, events_buffer_cap, heap>>
    /\ cbPc' = "bind"
    /\ UNCHANGED <<control, period, pending, portIx, consumed, midi_events,
                   midi_events_cap, calls, processed, prevMax>>
    /\ UNCHANGED <<cfgVars, mainVars, active, alive, audio, plugin_events>>

\* host_buffer.bind(&inputs, &mut outputs); plugin.process(&mut audio_buffer)
\* is entered ...
ProcessBegin ==
    /\ Running /\ cbPc = "bind"
    /\ calls' = Append(calls, "process")
    /\ processed' = Append(processed, period)
    /\ cbPc' = "in_process"
    /\ audio' = [audio EXCEPT !.host_buffer = Bind(audio.inputs, audio.outputs)]
    /\ UNCHANGED <<control, period, pending, portIx, consumed, midi_events,
                   midi_events_cap, events_buffer, events_buffer_cap, prevMax, heap>>
    /\ UNCHANGED <<cfgVars, mainVars, active, alive, plugin_events>>

\* ... and returns, the plugin having written its output; the callback
\* returns jack::Control::Continue.
ProcessEnd(samples) ==
    /\ Running /\ cbPc = "in_process"
    /\ audio' \in PluginProcess(audio, samples)
    /\ control' = "Continue"
    /\ cbPc' = "idle"
    /\ UNCHANGED <<period, pending, portIx, consumed, midi_events,
                   midi_events_cap, events_buffer, events_buffer_cap, calls,
                   processed, prevMax, heap>>
    /\ UNCHANGED <<cfgVars, mainVars, active, alive, plugin_events>>

ProcessReturn == ProcessEnd(HostSamples)

\* ------------------------------------------------------ the specifications
MainNext ==
    \/ LoadPlugin \/ InstantiatePlugin \/ InitPlugin \/ GetEditor
    \/ CreateClient \/ RegisterPorts \/ Activate
    \/ CreateWindow \/ EditorOpenBegin \/ EditorOpenEnd \/ EventLoopExit
    \/ ReadStdin \/ DropAsyncClient \/ DropPlugin

CallbackNext ==
    \/ CallbackBegin \/ EncodePush \/ EncodePanic
    \/ SendMidi \/ ProcessEventsReturn \/ ProcessBegin \/ ProcessReturn

Next == MainNext \/ CallbackNext

Spec == Init /\ [][Next]_vars

\* The codec alone: the callback stands at the start of its drain loop, its one
\* MIDI port yields one message of CodecMsgs.
CodecInit ==
    /\ bin \in Bins
    /\ args = [show_editor |-> FALSE, extra_midi_in |-> 0]
    /\ plugin_info = [inputs |-> 0, outputs |-> 2, midi_inputs |-> 1]
    /\ plugin_has_editor = FALSE
    /\ mainPc = "stdin" /\ result = "none" /\ plugin_state = "Initialized"
    /\ editor = FALSE /\ editor_opens = 0
    /\ input_ports = 0 /\ output_ports = 2 /\ midi_input_ports = 1
    /\ lifecycle = <<"init">> /\ window = "none"
    /\ active = TRUE /\ alive = TRUE
    /\ cbPc = "encode" /\ control = "none" /\ period = 1
    /\ pending = <<<<>>>> /\ portIx = 1 /\ consumed = <<>>
    /\ midi_events = <<>> /\ midi_events_cap = 0
    /\ events_buffer = <<>> /\ events_buffer_cap = 0
    /\ calls = <<>> /\ processed = <<>> /\ prevMax = 0 /\ plugin_events = <<>>
    /\ audio = PeriodAudio(0, 2, MaxFrames, <<>>, Bind(<<>>, <<>>))
    /\ heap = NoEffects

CodecPush == consumed = <<>> /\ Push(CodecMsgs)
CodecPanic == consumed = <<>> /\ Panic(CodecMsgs)

CodecNext == CodecPush \/ CodecPanic

CodecSpec == CodecInit /\ [][CodecNext]_vars

\* The buffers alone: the callback of a plugin with no MIDI input stands
\* before bind, with 0..MaxChannels channels each way, a period of
\* 0..MaxFrames samples and any input samples of BindSamples.
BindInit ==
    /\ bin \in Bins
    /\ args = [show_editor |-> FALSE, extra_midi_in |-> 0]
    /\ plugin_has_editor = FALSE
    /\ mainPc = "stdin" /\ result = "none" /\ plugin_state = "Initialized"
    /\ editor = FALSE /\ editor_opens = 0
    /\ midi_input_ports = 0
    /\ lifecycle = <<"init">> /\ window = "none"
    /\ active = TRUE /\ alive = TRUE
    /\ cbPc = "bind" /\ control = "none" /\ period = 1
    /\ pending = <<>> /\ portIx = 1 /\ consumed = <<>>
    /\ midi_events = <<>> /\ midi_events_cap = 0
    /\ events_buffer = <<>> /\ events_buffer_cap = 0
    /\ calls = <<>> /\ processed = <<>> /\ prevMax = 0 /\ plugin_events = <<>>
    /\ \E i, o \in 0..MaxChannels, frames \in 0..MaxFrames :
          /\ plugin_info = [inputs |-> i, outputs |-> o, midi_inputs |-> 0]
          /\ input_ports = i /\ output_ports = o
          /\ heap = [NoEffects EXCEPT !.alloc = CollectAllocates(i) \/ CollectAllocates(o)]
          /\ \E content \in [1..i -> [1..frames -> BindSamples]] :
                audio = PeriodAudio(i, o, frames, content, Bind(<<>>, <<>>))

BindProcessReturn == ProcessEnd(BindSamples)

BindNext == ProcessBegin \/ BindProcessReturn

BindSpec == BindInit /\ [][BindNext]_vars

\* ------------------------------------------------------------- the claims
Count(seq, x) == Cardinality({i \in DOMAIN seq : seq[i] = x})

\* The messages of the current period in port order, then arrival order.
RECURSIVE PortOrder(_, _)
PortOrder(p, n) == IF n = 0 THEN <<>> ELSE PortOrder(p, n - 1) \o p[n]
Delivered == PortOrder(pending, Len(pending))

\* The first three bytes of a message, zero-filled on the right.
ThreeBytes(bytes) ==
    IF Len(bytes) >= 3 THEN SubSeq(bytes, 1, 3)
    ELSE bytes \o [k \in 1..(3 - Len(bytes)) |-> 0]

\* The last invocation has ended: it returned or it unwound.
InvocationOver == period > 0 /\ cbPc \in {"idle", "unwound"}
\* The current invocation is past the `if num_events > 0` of send_midi.
PastSend == period > 0 /\ cbPc \in {"in_process_events", "bind", "in_process", "idle"}

\* C1: every invocation of the callback calls process exactly once, a
\* process_events call of the invocation comes before it, and process is
\* called for the periods in the order the transport delivered them.
C1_ProcessOncePerInvocation ==
    /\ Count(calls, "process") <= 1
    /\ InvocationOver => Count(calls, "process") = 1
    /\ \A i, j \in DOMAIN calls :
           (calls[i] = "process_events" /\ calls[j] = "process") => i < j
    /\ \A i, j \in DOMAIN processed : i < j => processed[i] < processed[j]

\* C2: process_events is called at most once per invocation, never in an
\* invocation with no pending MIDI message, and send_midi calls it exactly
\* when the batch it is given is non-empty.
C2_EventsDeliveredIffBatchNonEmpty ==
    /\ Count(calls, "process_events") <= 1
    /\ (period > 0 /\ Delivered = <<>>) => Count(calls, "process_events") = 0
    /\ PastSend => (Count(calls, "process_events") = 1 <=> midi_events # <<>>)

\* C2 witness: a period without MIDI follows one with MIDI, and the callback
\* reaches process without a process_events call.
C2_Witness ==
    /\ cbPc = "in_process" /\ prevMax > 0
    /\ Delivered = <<>> /\ calls = <<"process">>

\* C3: whatever is pending, the batch of the invocation holds one event per
\* pending message, in port order and then arrival order.
C3_BatchHasOneEventPerMessage ==
    (period > 0 /\ cbPc # "encode") =>
        /\ Len(midi_events) = Len(Delivered)
        /\ \A i \in 1..Len(midi_events) :
               midi_events[i].midi_data = ThreeBytes(Delivered[i].bytes)

\* C4: a message of 0..3 bytes is encoded to its bytes in order, followed by
\* zero bytes up to length 3.
C4_ShortMessageZeroPadded ==
    \A i \in 1..Len(consumed) :
        Len(consumed[i].bytes) <= 3 =>
            /\ i <= Len(midi_events)
            /\ midi_events[i].midi_data = ThreeBytes(consumed[i].bytes)

\* C4 witness: a two-byte message was encoded with one zero byte of padding.
C4_Witness ==
    /\ consumed # <<>> /\ consumed[1].bytes = <<144, 60>>
    /\ midi_events # <<>> /\ midi_events[1].midi_data = <<144, 60, 0>>

\* C5: a message of more than 3 bytes is encoded to its first three bytes and
\* the callback goes on.
C5_LongMessageTruncated ==
    \A i \in 1..Len(consumed) :
        Len(consumed[i].bytes) > 3 =>
            /\ cbPc # "unwound"
            /\ i <= Len(midi_events)
            /\ midi_events[i].midi_data = SubSeq(consumed[i].bytes, 1, 3)

\* C6: no invocation unwinds, and every invocation returns Control::Continue.
C6_CallbackAlwaysContinues ==
    /\ cbPc # "unwound"
    /\ control \in {"none", "Continue"}

\* C7: the frame offset field of the event (delta_frames) is the time the
\* transport reported for the message.
C7_OffsetIsMessageTime ==
    \A i \in 1..Len(midi_events) : midi_events[i].delta_frames = consumed[i].time

\* C8: every event has the MIDI tag, the fixed record size, and zero in flags,
\* note_length, note_offset and the reserved fields.
C8_BookkeepingFieldsFixed ==
    \A i \in 1..Len(midi_events) :
        LET e == midi_events[i]
        IN /\ e.event_type = "Midi" /\ e.byte_size = MidiEventSize
           /\ e.flags = 0 /\ e.note_length = 0 /\ e.note_offset = 0
           /\ e._midi_reserved = 0 /\ e.detune = 0 /\ e.note_off_velocity = 0
           /\ e._reserved1 = 0 /\ e._reserved2 = 0

\* C9: editor.open on the main thread is never in progress while the JACK
\* thread is inside process_events or process.
C9_EditorOpenNeverOverlapsCallback ==
    ~(mainPc = "in_editor_open" /\ cbPc \in {"in_process_events", "in_process"})

\* C10: after the first invocation, an invocation with no more events than an
\* earlier one had neither allocates nor frees the storage of the batch.
C10_NoReallocationInSteadyState ==
    (period > 1 /\ Len(midi_events) <= prevMax) => (~heap.grew /\ ~heap.freed)

\* C11: no invocation of the callback allocates on the heap or writes to
\* stdout or stderr, whatever the channel counts and the pending messages.
C11_CallbackIsRealTimeSafe == ~heap.alloc /\ ~heap.io

\* C12: on every way the process ends once the plugin exists (main returns
\* after stdin, or the editor's event loop exits on a close request), the
\* client is deactivated first and the plugin is shut down after that, and no
\* callback is inside the plugin once it is shut down.
C12_TeardownBeforeShutdown ==
    /\ plugin_state = "Stopped" => (~active /\ cbPc \in {"idle", "unwound"})
    /\ (mainPc \in {"done", "exited"} /\ plugin_state # "Unloaded") =>
           (~active /\ plugin_state = "Stopped")

\* C13: when loading, instantiating, creating the client or registering a port
\* fails, main is on its way out with that error: the callback is not
\* installed and never was, no period was delivered, the plugin got no
\* process_events or process call, and main is at none of the setup steps again.
C13_SetupFailureInstallsNoCallback ==
    result \in SetupErrors =>
        /\ ~active /\ mainPc \in {"return", "done"}
        /\ period = 0 /\ calls = <<>> /\ processed = <<>>

\* C13 witness: registering the MIDI input ports failed after the audio ports
\* were registered, and main has returned.
C13_Witness ==
    /\ result = "Registering MIDI input ports" /\ mainPc = "done"
    /\ output_ports = 2 /\ plugin_state = "Stopped"

\* C14: for every channel count and period length, bind writes no sample, and
\* after process every output channel still has as many samples as the period
\* and every input channel holds what it held when the period arrived.
C14_ProcessKeepsLengthsAndInputs ==
    /\ cbPc = "in_process" => (audio.ins = audio.before.ins /\ audio.outs = audio.before.outs)
    /\ (cbPc = "idle" /\ Count(calls, "process") = 1) =>
           /\ Len(audio.outs) = output_ports
           /\ \A j \in 1..output_ports : Len(audio.outs[j]) = audio.frames
           /\ audio.ins = audio.before.ins

\* C14 witness: process has rewritten both outputs of a two-in, two-out plugin
\* in a period of MaxFrames samples whose inputs are not silent.
C14_Witness ==
    /\ cbPc = "idle" /\ calls = <<"process">>
    /\ input_ports = 2 /\ output_ports = 2 /\ audio.frames = MaxFrames
    /\ audio.ins[1][1] = 1 /\ audio.ins[2][1] = 0
    /\ audio.outs[1][1] = 1 /\ audio.outs[2][1] = 1

\* C15: init is called at most once; a plugin instance that exists is past
\* its one init call unless main stands right at that call; init comes before
\* get_editor; and whenever the callback is installed, a period was delivered
\* or the plugin got a call from the callback, init has been called.
C15_InitOnceBeforeEverythingElse ==
    /\ Count(lifecycle, "init") <= 1
    /\ (plugin_state # "Unloaded" /\ mainPc # "init") => Count(lifecycle, "init") = 1
    /\ \A i \in DOMAIN lifecycle :
           lifecycle[i] \in {"get_editor", "shutdown"} =>
               \E j \in 1..(i - 1) : lifecycle[j] = "init"
    /\ (active \/ period > 0 \/ calls # <<>>) => Count(lifecycle, "init") = 1

\* C15 witness: the callback is inside process and main has called init and
\* then get_editor, once each.
C15_Witness ==
    /\ cbPc = "in_process" /\ active
    /\ lifecycle = <<"init", "get_editor">>

\* C16: when send_midi hands a list to process_events, the batch has n >= 1
\* events and the list is exactly n + 2 words: n, then 0, then one pointer per
\* event, the i-th to the i-th element of midi_events; nothing of an earlier
\* list is in it.
C16_EventListIsCountReservedPointers ==
    cbPc = "in_process_events" =>
        LET n == Len(midi_events)
        IN /\ n >= 1
           /\ Len(events_buffer) = n + 2
           /\ events_buffer[1] = n /\ events_buffer[2] = 0
           /\ \A i \in 1..n : events_buffer[i + 2] = [ptr |-> i]

\* C16 witness: vst_host.rs hands over a list for one event in the period
\* after one in which the list was for two events.
C16_Witness ==
    /\ cbPc = "in_process_events" /\ bin = "vst_host"
    /\ period = 2 /\ prevMax = 2 /\ Len(midi_events) = 1
    /\ events_buffer = <<1, 0, [ptr |-> 1]>> /\ events_buffer_cap = 4

\* C17: editor.open is called at most once; it has been called exactly when
\* main is past the call, which takes the editor having been requested, the
\* plugin having one and the window handle having been obtained; and the
\* window is open for as long as main is in editor.open or in the event loop.
C17_EditorOpenedOnceWindowKept ==
    /\ editor_opens <= 1
    /\ editor_opens = 1 <=> mainPc \in {"in_editor_open", "event_loop", "exited"}
    /\ editor_opens = 1 =>
           (args.show_editor /\ plugin_has_editor /\ editor /\ window = "open")
    /\ mainPc \in {"editor_open", "in_editor_open", "event_loop"} => window = "open"

\* C17 witness: the event loop runs after the one editor.open call while the
\* callback is inside process.
C17_Witness ==
    /\ mainPc = "event_loop" /\ editor_opens = 1 /\ window = "open"
    /\ cbPc = "in_process"

\* The three register_port loops have all succeeded.
PortsRegistered ==
    /\ mainPc \notin {"load", "instance", "init", "get_editor", "client", "ports"}
    /\ result \notin SetupErrors

\* C18: once the ports are registered there is one audio input port per
\* declared input and one audio output port per declared output, the number
\* of MIDI input ports is the declared number plus extra_midi_in and so not
\* below the declared number, and every invocation of the callback sees these
\* numbers of ports.
C18_PortCountsMatchPlugin ==
    PortsRegistered =>
        /\ input_ports = plugin_info.inputs
        /\ output_ports = plugin_info.outputs
        /\ midi_input_ports = plugin_info.midi_inputs + args.extra_midi_in
        /\ midi_input_ports >= plugin_info.midi_inputs
        /\ period > 0 =>
               /\ Len(audio.inputs) = plugin_info.inputs
               /\ Len(audio.outputs) = plugin_info.outputs
               /\ Len(pending) = midi_input_ports

\* C19: in every invocation that has ended, the plugin was handed one event
\* per message the ports yielded in that period, each the encoding of its
\* message, in order, and nothing else: no message is left out and no event
\* of an earlier period is handed over again.
C19_EachMessageDeliveredOnceInItsPeriod ==
    InvocationOver =>
        /\ Len(plugin_events) = Len(consumed)
        /\ \A i \in 1..Len(consumed) :
               plugin_events[i] = midi_event_from_raw_midi(consumed[i]).event

====
